---- MODULE Spec2Model ----
(***************************************************************************)
(* Loss terms of boltz_binder_design:                                      *)
(*   losses/esm.py             boltz_to_esm_matrix, ESM2PseudoLikelihood   *)
(*   losses/fixed_positions.py SetPositions                                *)
(*                                                                         *)
(* Arrays are functions over 0..n-1, so indices are the source's indices.  *)
(* A real number x of a token-space array is held as the integer x * One   *)
(* (fixed point with unit One); arrays that went through the rescaling of  *)
(* single_ll are records [num, den] (numerators over a common denominator).*)
(***************************************************************************)
EXTENDS Integers, Sequences, FiniteSets, TLC

VARIABLES
    TOKENS,             \* common.TOKENS, the design vocabulary (a string)
    ESM_TOKENS,         \* esm2quinox._esm2._alphabet, symbol -> model index
    matrix,             \* what the last boltz_to_esm_matrix() call gave
    pc,                 \* position of the running __call__
    self,               \* the ESM2PseudoLikelihood object being called
    seq_standard_tokens,\* argument of __call__
    key,                \* keyword argument of __call__
    esm_toks_unpadded,  \* local of __call__
    esm_toks,           \* local of __call__
    passes,             \* single_ll(index) evaluations made so far, by index
    result,             \* what __call__ returned or raised
    loss_paths,         \* differentiable inputs the returned loss has a gradient path to
    remembered,         \* an earlier completed call, kept to compare calls
    sp,                 \* the SetPositions object (or what from_sequence raised)
    sp_out              \* what SetPositions.sequence returned or raised

vars == <<TOKENS, ESM_TOKENS, matrix, pc, self, seq_standard_tokens, key,
          esm_toks_unpadded, esm_toks, passes, result, loss_paths, remembered,
          sp, sp_out>>

callVars == <<pc, self, seq_standard_tokens, key, esm_toks_unpadded, esm_toks,
              passes, result, loss_paths, remembered>>

spVars == <<sp, sp_out>>

(***************************************************************************)
(* Bounds of the model.                                                    *)
(***************************************************************************)
\* longest soft sequence passed to __call__
MaxN == 2
\* longest candidate design vocabulary
MaxVocab == 3
\* longest wildtype passed to SetPositions
MaxWild == 3
\* fixed-point unit: the integer that stands for the real 1.0
One == 2

(***************************************************************************)
(* Array helpers.                                                          *)
(***************************************************************************)
None == [none |-> TRUE]

Raise(kind) == [error |-> kind]

\* what an operation that can raise gives: Ok(value) or Raise(kind)
Ok(v) == [val |-> v]

IsError(x) == "error" \in DOMAIN x

Size(x) == Cardinality(DOMAIN x)

Str(s) == [i \in 0 .. Len(s) - 1 |-> s[i + 1]]

RECURSIVE Dot(_, _, _, _)
\* the sum over r < len of row[r] * b[r][c]
Dot(row, b, c, len) ==
    IF len = 0 THEN 0 ELSE row[len - 1] * b[len - 1][c] + Dot(row, b, c, len - 1)

RECURSIVE RowDot(_, _, _)
\* (x * y).sum() of two rows
RowDot(x, y, len) ==
    IF len = 0 THEN 0 ELSE x[len - 1] * y[len - 1] + RowDot(x, y, len - 1)

RECURSIVE SumUpTo(_, _)
SumUpTo(f, len) == IF len = 0 THEN 0 ELSE f[len - 1] + SumUpTo(f, len - 1)

\* x.sum() of a one-dimensional array
Sum(f) == SumUpTo(f, Size(f))

Zeros(len) == [c \in 0 .. len - 1 |-> 0]

\* jax.nn.one_hot(i, n), in fixed point: an index outside 0..len-1 gives zeros
one_hot(i, len) == [c \in 0 .. len - 1 |-> IF c = i THEN One ELSE 0]

\* x.at[index].set(row): a new array, x itself is left as it was
AtSet(x, index, row) == [j \in DOMAIN x |-> IF j = index THEN row ELSE x[j]]

\* jnp.concatenate along axis 0 of arrays of the same width
Concatenate(a, b) ==
    [j \in 0 .. Size(a) + Size(b) - 1 |-> IF j < Size(a) THEN a[j] ELSE b[j - Size(a)]]

(***************************************************************************)
(* The vocabularies.                                                       *)
(***************************************************************************)
\* common.TOKENS: the 20 standard amino acids ("N 20" in the signatures)
StandardTOKENS == Str(<<"A", "R", "N", "D", "C", "Q", "E", "G", "H", "I",
                        "L", "K", "M", "F", "P", "S", "T", "W", "Y", "V">>)

\* the ESM-2 alphabet of esm2quinox: cls, pad, eos, unk, the residues, null, mask
EsmAlphabetOrder == Str(<<"c", "p", "e", "u", "L", "A", "G", "V", "S", "E", "R",
                          "T", "I", "D", "P", "K", "Q", "N", "F", "Y", "M", "H",
                          "W", "C", "X", "B", "U", "Z", "O", ".", "-", "n", "m">>)

EsmAlphabet ==
    [s \in {EsmAlphabetOrder[i] : i \in DOMAIN EsmAlphabetOrder} |->
        CHOOSE i \in DOMAIN EsmAlphabetOrder : EsmAlphabetOrder[i] = s]

\* candidate vocabularies for checking boltz_to_esm_matrix as a pure function
Symbols == {"A", "R", "X"}

CandidateTOKENS == UNION {[0 .. k - 1 -> Symbols] : k \in 1 .. MaxVocab}

CandidateESM == UNION {[D -> 0 .. Cardinality(D)] : D \in SUBSET Symbols}

(***************************************************************************)
(* boltz_to_esm_matrix (esm.py 12-18).  T[i, esm_idx] = 1 for each token;  *)
(* ESM_TOKENS[tok] of a missing symbol raises KeyError, a column past the  *)
(* width raises IndexError; the first failing token of the loop decides.   *)
(***************************************************************************)
TokenFails(i) ==
    \/ TOKENS[i] \notin DOMAIN ESM_TOKENS
    \/ ESM_TOKENS[TOKENS[i]] >= Size(ESM_TOKENS)

\* variant: a symbol without an entry leaves its row zero
boltz_to_esm_matrix_mut_zero_fill ==
    Ok([i \in DOMAIN TOKENS |->
        [c \in 0 .. Size(ESM_TOKENS) - 1 |->
            IF TOKENS[i] \in DOMAIN ESM_TOKENS /\ c = ESM_TOKENS[TOKENS[i]]
            THEN 1 ELSE 0]])

\* variant: the 1 of row i is put at column i
boltz_to_esm_matrix_mut_column ==
    Ok([i \in DOMAIN TOKENS |->
        [c \in 0 .. Size(ESM_TOKENS) - 1 |->
            IF c = i THEN 1 ELSE 0]])

boltz_to_esm_matrix ==
    IF \E i \in DOMAIN TOKENS : TokenFails(i)
    THEN LET i == CHOOSE j \in DOMAIN TOKENS :
                      TokenFails(j) /\ \A h \in 0 .. j - 1 : ~TokenFails(h)
         IN  IF TOKENS[i] \notin DOMAIN ESM_TOKENS
             THEN Raise("KeyError") ELSE Raise("IndexError")
    ELSE Ok([i \in DOMAIN TOKENS |->
                [c \in 0 .. Size(ESM_TOKENS) - 1 |->
                    IF c = ESM_TOKENS[TOKENS[i]] THEN 1 ELSE 0]])

(***************************************************************************)
(* Numbers written in the source.                                          *)
(***************************************************************************)
\* jax.nn.one_hot(..., 33): the width the markers and the mask row are built with
EsmWidth == 33
\* jax.nn.one_hot([0], 33): cls
ClsIndex == 0
\* jax.nn.one_hot([2], 33): eos
EosIndex == 2
\* mask_ratio_train = 0.15 * 0.8, as 15/100 * 8/10
MaskProbPercent == 15
MaskReplaceTenths == 8

RECURSIVE Gcd(_, _)
Gcd(a, b) == IF b = 0 THEN a ELSE Gcd(b, a % b)

\* (1 - mask_ratio_train) / (1 - 1/(n+2)) as a reduced fraction
RescaleFactor(len) ==
    LET num == (1000 - MaskProbPercent * MaskReplaceTenths) * (len + 2)
        den == 1000 * (len + 1)
        g   == Gcd(num, den)
    IN  [num |-> num \div g, den |-> den \div g]

(***************************************************************************)
(* The pretrained model (esm2quinox.ESM2, external and read-only).  Two    *)
(* parameter sets stand for it: integer weights, layers that add a         *)
(* multiple of the summed non-padding rows (every row sees every other     *)
(* one), a layer norm that centres each row, a linear logit head.          *)
(***************************************************************************)
\* embedding dimension of the stand-in models
EmbedDim == 2
\* number of layers of the stand-in models
NumLayers == 2

EsmModels == {"esm_a", "esm_b"}

Parameters(seed) ==
    [embedding  |-> [weight |-> [v \in 0 .. EsmWidth - 1 |->
                        [d \in 0 .. EmbedDim - 1 |-> (((v + seed) * (d + 2)) % 3) - 1]]],
     layers     |-> [l \in 0 .. NumLayers - 1 |-> IF (l + seed) % 2 = 0 THEN 1 ELSE -1],
     logit_head |-> [weight |-> [d \in 0 .. EmbedDim - 1 |->
                        [v \in 0 .. EsmWidth - 1 |-> (((v + d) * seed + (v \div 3)) % 3) - 1]],
                     bias   |-> [v \in 0 .. EsmWidth - 1 |-> (v * seed) % 2]]]

EsmA == Parameters(1)

EsmB == Parameters(2)

Pretrained(m) == IF m = "esm_a" THEN EsmA ELSE EsmB

\* variant: a @ b that multiplies what overlaps when the shapes differ
MatMul_mut_broadcast(a, b) ==
    Ok([j \in DOMAIN a |->
           [c \in DOMAIN b[0] |-> Dot(a[j], b, c, Cardinality(DOMAIN b \cap DOMAIN a[j]))]])

\* a @ b: the width of a must be the height of b
MatMul(a, b) ==
    IF \E j \in DOMAIN a : Size(a[j]) # Size(b)
    THEN Raise("TypeError")
    ELSE Ok([j \in DOMAIN a |-> [c \in DOMAIN b[0] |-> Dot(a[j], b, c, Size(b))]])

\* layer(x, is_pad=is_pad): x + theta * (sum of the rows that are not padding)
Layer(theta, x, is_pad) ==
    LET context == [d \in 0 .. EmbedDim - 1 |->
                       Sum([i \in DOMAIN x |-> IF is_pad[i] = 0 THEN x[i][d] ELSE 0])]
    IN  [j \in DOMAIN x |->
            [d \in DOMAIN x[j] |-> x[j][d] + theta * context[(d + 1) % EmbedDim]]]

RECURSIVE Scan(_, _, _, _)
\* jax.lax.scan(f, x, xs=dynamic_layers): the layers applied in order
Scan(layers, l, x, is_pad) ==
    IF l = Size(layers) THEN x
    ELSE Scan(layers, l + 1, Layer(layers[l], x, is_pad), is_pad)

\* esm.layer_norm on one row: the row minus its mean, times EmbedDim
layer_norm(row) == [d \in DOMAIN row |-> EmbedDim * row[d] - Sum(row)]

\* _apply_trunk(x, is_pad) on [num, den]
apply_trunk(esm, x, is_pad) ==
    LET out == Scan(esm.layers, 0, x.num, is_pad)
    IN  [num |-> [j \in DOMAIN out |-> layer_norm(out[j])],
         den |-> x.den * EmbedDim]

\* esm.logit_head on one row of [num, den]
logit_head(esm, row, den) ==
    [v \in 0 .. EsmWidth - 1 |->
        Dot(row, esm.logit_head.weight, v, Size(row)) + esm.logit_head.bias[v] * den]

RECURSIVE Max(_, _)
Max(row, len) ==
    IF len = 1 THEN row[0]
    ELSE LET rest == Max(row, len - 1)
         IN  IF row[len - 1] > rest THEN row[len - 1] ELSE rest

\* jax.nn.log_softmax on one row, with max in place of log-sum-exp
log_softmax(row) ==
    LET top == Max(row, Size(row))
    IN  [v \in DOMAIN row |-> row[v] - top]
(***************************************************************************)
(* ESM2PseudoLikelihood.__call__ (esm.py 37-70), in the order it runs.     *)
(***************************************************************************)
\* n = seq_standard_tokens.shape[0]
n == Size(seq_standard_tokens)

\* jnp.arange(start, stop)
arange(start, stop) == [k \in 0 .. stop - start - 1 |-> start + k]

\* variant: the indices start at the cls marker
indices_mut_from_zero == arange(0, n + 1)

\* the indices single_ll is mapped over: jnp.arange(start = 1, stop = n+1)
indices == arange(1, n + 1)

\* seq_standard_tokens @ boltz_to_esm_matrix(): an error of either is the call's
Project(seq, T) == IF IsError(T) THEN T ELSE MatMul(seq, T.val)

\* jnp.concatenate([one_hot([0], 33), esm_toks_unpadded, one_hot([2], 33)])
Bracket(unpadded) ==
    IF IsError(unpadded) THEN unpadded
    ELSE IF \E j \in DOMAIN unpadded.val : Size(unpadded.val[j]) # EsmWidth
    THEN Raise("TypeError")
    ELSE Ok(Concatenate(Concatenate([j \in {0} |-> one_hot(ClsIndex, EsmWidth)],
                                    unpadded.val),
                        [j \in {0} |-> one_hot(EosIndex, EsmWidth)]))

\* esm_toks.at[index].set(jax.nn.one_hot(ESM_TOKENS["m"], 33))
masked_tokens(index) == AtSet(esm_toks, index, one_hot(ESM_TOKENS["m"], EsmWidth))

\* variant: the embedding of the mask token is left in row index
embedding_mut_not_zeroed(masked, index) ==
    MatMul(masked, Pretrained(self.esm).embedding.weight).val

\* (masked_tokens @ self.esm.embedding.weight).at[index].set(0.0)
embedding(masked, index) ==
    AtSet(MatMul(masked, Pretrained(self.esm).embedding.weight).val,
          index, Zeros(EmbedDim))

\* embedding * ((1 - mask_ratio_train) / (1 - 1/(n+2)))
rescaled(e) ==
    LET f == RescaleFactor(n)
    IN  [num |-> [j \in DOMAIN e |-> [d \in DOMAIN e[j] |-> e[j][d] * f.num]],
         den |-> One * f.den]

\* log_softmax(vmap(logit_head)(_apply_trunk(embedding, np.zeros(n + 2))))[index]
log_likelihood(scaled, index) ==
    LET esm == Pretrained(self.esm)
        out == apply_trunk(esm, scaled, Zeros(n + 2))
    IN  [num |-> log_softmax(logit_head(esm, out.num[index], out.den)),
         den |-> out.den]

(***************************************************************************)
(* Gradient paths: the differentiable inputs ("seq", the soft sequence;    *)
(* "esm", the model's parameters) a value depends on through operations    *)
(* that propagate gradients.  A row set to a constant depends on nothing.  *)
(***************************************************************************)
\* the marker rows are constants, the interior rows are seq @ T
esm_toks_paths == [j \in DOMAIN esm_toks |-> IF j \in 1 .. n THEN {"seq"} ELSE {}]

\* paths of single_ll(index): the trunk mixes every row of the masked embedding
single_ll_paths(index) ==
    LET masked == AtSet(esm_toks_paths, index, {})
        embed  == AtSet([j \in DOMAIN masked |-> masked[j] \cup {"esm"}], index, {})
    IN  UNION {embed[j] : j \in DOMAIN embed} \cup {"esm"}

\* variant: single_ll with a row of the embedding dropped as the key says
single_ll_mut_key(index) ==
    LET masked == masked_tokens(index)
        e      == embedding(masked, index)
        scaled == rescaled(IF key = "key_a" THEN e ELSE AtSet(e, 0, Zeros(EmbedDim)))
    IN  [masked_tokens |-> masked,
         embedding     |-> e,
         ll            |-> log_likelihood(scaled, index),
         paths         |-> single_ll_paths(index)]

\* single_ll(index), lines 52-64: what it returns (ll, with its gradient
\* paths) and the two arrays it built on the way
single_ll(index) ==
    LET masked == masked_tokens(index)
        e      == embedding(masked, index)
    IN  [masked_tokens |-> masked,
         embedding     |-> e,
         ll            |-> log_likelihood(rescaled(e), index),
         paths         |-> single_ll_paths(index)]

\* variant: the gradient paths are kept
stop_gradient_mut_identity(x) == x

\* jax.lax.stop_gradient(x): the value, with no gradient path
stop_gradient(x) == [x EXCEPT !.paths = {}]

\* jax.vmap(single_ll)(xs): row k is single_ll(xs[k])
vmap_single_ll(xs) ==
    [num   |-> [k \in DOMAIN xs |-> passes[xs[k]].ll.num],
     den   |-> passes[xs[0]].ll.den,
     paths |-> UNION {passes[xs[k]].paths : k \in DOMAIN xs}]

\* variant: the product taken at the bracketed rows' offset (row k with token k - 1)
Pll_mut_offset(mll, unpadded) ==
    [num |-> Sum([k \in DOMAIN unpadded |->
                RowDot(mll.num[k], unpadded[(k + Size(unpadded) - 1) % Size(unpadded)],
                       EsmWidth)]),
     den |-> mll.den * One * Size(unpadded)]

\* (masked_log_likelihoods * esm_toks_unpadded).sum(-1).mean(), with numpy's
\* broadcasting of the row axis
Pll(mll, unpadded) ==
    LET ra == Size(mll.num)
        rb == Size(unpadded)
        rows == IF ra >= rb THEN ra ELSE rb
    IN  IF ra # rb /\ ra # 1 /\ rb # 1
        THEN Raise("TypeError")
        ELSE [num |-> Sum([k \in 0 .. rows - 1 |->
                        RowDot(mll.num[IF ra = 1 THEN 0 ELSE k],
                               unpadded[IF rb = 1 THEN 0 ELSE k], EsmWidth)]),
              den |-> mll.den * One * rows]

Neg(x) == [x EXCEPT !.num = -x.num]

\* return -pll, {"esm_pll": pll}
Returned(pll) ==
    IF IsError(pll) THEN pll
    ELSE [loss |-> Neg(pll), metrics |-> [esm_pll |-> pll]]

(***************************************************************************)
(* Inputs of __call__.                                                     *)
(***************************************************************************)
\* a row that is One - 1 parts token a and 1 part token b
Soft(a, b, width) ==
    [c \in 0 .. width - 1 |-> IF c = a THEN One - 1 ELSE IF c = b THEN 1 ELSE 0]

Rows(width) == {one_hot(0, width), one_hot(width - 1, width), Soft(4, 12, width)}

\* every one-hot sequence of length 1, the sequences of up to MaxN rows of
\* Rows, and sequences whose second dimension is not len(TOKENS)
SoftSeqs ==
    {[j \in {0} |-> one_hot(t, Size(TOKENS))] : t \in DOMAIN TOKENS}
    \cup UNION {[0 .. len - 1 -> Rows(Size(TOKENS))] : len \in 1 .. MaxN}
    \cup UNION {{[j \in 0 .. len - 1 |-> one_hot(0, width)] : len \in 1 .. MaxN} :
                    width \in {Size(TOKENS) - 1, Size(TOKENS) + 1}}

\* the sequences of up to MaxN equal rows, for comparing calls
TwiceSeqs ==
    UNION {{[j \in 0 .. len - 1 |-> row] : len \in 1 .. MaxN} :
               row \in {one_hot(0, Size(TOKENS)), Soft(4, 12, Size(TOKENS))}}

Objects == [esm : EsmModels, stop_grad : BOOLEAN]

Keys == {"key_a", "key_b"}

(***************************************************************************)
(* Actions.                                                                *)
(***************************************************************************)
\* __call__, lines 38-48: project and bracket, or raise
CallStart(seqs) ==
    /\ pc = "idle"
    /\ \E seq \in seqs :
         LET T        == boltz_to_esm_matrix
             unpadded == Project(seq, T)
             toks     == Bracket(unpadded)
         IN  /\ seq_standard_tokens' = seq
             /\ self' \in Objects
             /\ key' \in Keys
             /\ matrix' = T
             /\ passes' = << >>
             /\ loss_paths' = None
             /\ IF IsError(toks)
                THEN /\ pc' = "failed"
                     /\ result' = toks
                     /\ esm_toks_unpadded' = << >>
                     /\ esm_toks' = << >>
                ELSE /\ pc' = "masking"
                     /\ result' = None
                     /\ esm_toks_unpadded' = unpadded.val
                     /\ esm_toks' = toks.val
    /\ UNCHANGED <<TOKENS, ESM_TOKENS, remembered, sp, sp_out>>

\* one evaluation of single_ll under jax.vmap, lines 52-66
SingleLL ==
    /\ pc = "masking"
    /\ \E k \in DOMAIN indices :
         LET index == indices[k]
         IN  /\ index \notin DOMAIN passes
             /\ passes' = [i \in DOMAIN passes \cup {index} |->
                             IF i = index
                             THEN single_ll(index) ELSE passes[i]]
    /\ UNCHANGED <<TOKENS, ESM_TOKENS, matrix, pc, self, seq_standard_tokens, key,
                   esm_toks_unpadded, esm_toks, result, loss_paths, remembered,
                   sp, sp_out>>

\* lines 66-70: stack, stop the gradient, average, return
Finish ==
    /\ pc = "masking"
    /\ \A k \in DOMAIN indices : indices[k] \in DOMAIN passes
    /\ LET stacked == vmap_single_ll(indices)
           masked_log_likelihoods ==
               IF self.stop_grad THEN stop_gradient(stacked) ELSE stacked
           pll == Pll(masked_log_likelihoods, esm_toks_unpadded)
       IN  /\ result' = Returned(pll)
           /\ pc' = IF IsError(pll) THEN "failed" ELSE "done"
           /\ loss_paths' = [through_passes |-> masked_log_likelihoods.paths,
                             through_tokens |-> UNION {esm_toks_paths[j] : j \in 1 .. n}]
    /\ UNCHANGED <<TOKENS, ESM_TOKENS, matrix, self, seq_standard_tokens, key,
                   esm_toks_unpadded, esm_toks, passes, remembered, sp, sp_out>>

Discard ==
    /\ pc' = "idle"
    /\ self' = None
    /\ seq_standard_tokens' = << >>
    /\ key' = "none"
    /\ esm_toks_unpadded' = << >>
    /\ esm_toks' = << >>
    /\ passes' = << >>
    /\ result' = None
    /\ loss_paths' = None
    /\ UNCHANGED <<TOKENS, ESM_TOKENS, matrix, sp, sp_out>>

\* the caller has the result; the call's arrays are gone
Return ==
    /\ pc \in {"done", "failed"}
    /\ Discard
    /\ UNCHANGED remembered

\* as Return, with the caller keeping this call's inputs and outputs or not
ReturnRemember ==
    /\ pc \in {"done", "failed"}
    /\ Discard
    /\ remembered' \in {remembered,
                        [seq |-> seq_standard_tokens, self |-> self, key |-> key,
                         result |-> result]}

\* boltz_to_esm_matrix() on its own
Build ==
    /\ matrix = None
    /\ matrix' = boltz_to_esm_matrix
    /\ UNCHANGED <<TOKENS, ESM_TOKENS, sp, sp_out>>
    /\ UNCHANGED callVars

InitCall ==
    /\ matrix = None
    /\ pc = "idle"
    /\ self = None
    /\ seq_standard_tokens = << >>
    /\ key = "none"
    /\ esm_toks_unpadded = << >>
    /\ esm_toks = << >>
    /\ passes = << >>
    /\ result = None
    /\ loss_paths = None
    /\ remembered = None
    /\ sp = [via |-> "none", arg |-> << >>, obj |-> None]
    /\ sp_out = None

Init ==
    /\ TOKENS = StandardTOKENS
    /\ ESM_TOKENS = EsmAlphabet
    /\ InitCall

Next == CallStart(SoftSeqs) \/ SingleLL \/ Finish \/ Return

Spec == Init /\ [][Next]_vars

NextTwice == CallStart(TwiceSeqs) \/ SingleLL \/ Finish \/ ReturnRemember

SpecTwice == Init /\ [][NextTwice]_vars

InitVocab ==
    /\ \/ TOKENS \in CandidateTOKENS /\ ESM_TOKENS \in CandidateESM
       \/ TOKENS = StandardTOKENS /\ ESM_TOKENS = EsmAlphabet
    /\ InitCall

NextVocab == Build

SpecVocab == InitVocab /\ [][NextVocab]_vars
(***************************************************************************)
(* SetPositions (fixed_positions.py 17-43).                                *)
(***************************************************************************)
\* jnp.array(list): an empty list gives a float32 array, a list of ints an int32 one
jnp_array(list) ==
    [dtype |-> IF Size(list) = 0 THEN "float32" ELSE "int32", val |-> list]

\* TOKENS.index(AA): the first index of AA, ValueError when there is none
TokensIndex(AA) ==
    IF \E i \in DOMAIN TOKENS : TOKENS[i] = AA
    THEN Ok(CHOOSE i \in DOMAIN TOKENS :
                TOKENS[i] = AA /\ \A h \in 0 .. i - 1 : TOKENS[h] # AA)
    ELSE Raise("ValueError")

\* [i for i, AA in enumerate(wildtype) if AA == "X"]
XPositions(wildtype) ==
    LET S == {i \in DOMAIN wildtype : wildtype[i] = "X"}
    IN  [k \in 0 .. Cardinality(S) - 1 |->
            CHOOSE i \in S : Cardinality({h \in S : h < i}) = k]

\* SetPositions.from_sequence(wildtype, loss)
from_sequence(wildtype) ==
    IF \E i \in DOMAIN wildtype : IsError(TokensIndex(wildtype[i]))
    THEN Raise("ValueError")
    ELSE Ok([wildtype |-> jnp_array([i \in DOMAIN wildtype |-> TokensIndex(wildtype[i]).val]),
             variable_positions |-> jnp_array(XPositions(wildtype))])

\* SetPositions.sequence(seq): one_hot(wildtype).at[variable_positions].set(seq);
\* an index array that is not of integers is a TypeError, a seq that does not
\* broadcast to the indexed rows a ValueError
sequence(obj, seq) ==
    LET positions == obj.variable_positions
        hot == [i \in DOMAIN obj.wildtype.val |-> one_hot(obj.wildtype.val[i], Size(TOKENS))]
    IN  IF positions.dtype # "int32" THEN Raise("TypeError")
        ELSE IF Size(seq) # Size(positions.val) /\ Size(seq) # 1 THEN Raise("ValueError")
        ELSE Ok([i \in DOMAIN hot |->
                    IF \E k \in DOMAIN positions.val : positions.val[k] = i
                    THEN LET k == CHOOSE h \in DOMAIN positions.val : positions.val[h] = i
                         IN  seq[IF Size(seq) = 1 THEN 0 ELSE k]
                    ELSE hot[i]])

\* wildtype strings of standard letters and X
Wildtypes == UNION {[0 .. len - 1 -> {"A", "V", "X"}] : len \in 1 .. MaxWild}

\* strictly increasing index arrays into an array of the given length
Increasing(len) ==
    {XPositions([i \in 0 .. len - 1 |-> IF i \in S THEN "X" ELSE "A"]) :
        S \in SUBSET (0 .. len - 1)}

FromSequence ==
    /\ \E wildtype \in Wildtypes :
         sp' = [via |-> "from_sequence", arg |-> wildtype, obj |-> from_sequence(wildtype)]
    /\ sp_out' = None
    /\ UNCHANGED <<TOKENS, ESM_TOKENS, matrix>>
    /\ UNCHANGED callVars

\* SetPositions(wildtype, variable_positions, loss) built from its fields
Construct ==
    /\ \E len \in 1 .. MaxWild :
         \E wildtype \in [0 .. len - 1 -> {0, Size(TOKENS) - 1}],
            positions \in Increasing(len) :
              sp' = [via |-> "constructor", arg |-> << >>,
                     obj |-> Ok([wildtype |-> jnp_array(wildtype),
                                 variable_positions |-> jnp_array(positions)])]
    /\ sp_out' = None
    /\ UNCHANGED <<TOKENS, ESM_TOKENS, matrix>>
    /\ UNCHANGED callVars

Sequence ==
    /\ sp.via # "none"
    /\ ~IsError(sp.obj)
    /\ sp_out = None
    /\ \E seq \in [DOMAIN sp.obj.val.variable_positions.val -> Rows(Size(TOKENS))] :
         sp_out' = [seq |-> seq, out |-> sequence(sp.obj.val, seq)]
    /\ UNCHANGED <<TOKENS, ESM_TOKENS, matrix, sp>>
    /\ UNCHANGED callVars

NextSet == FromSequence \/ Construct \/ Sequence

SpecSet == Init /\ [][NextSet]_vars
(***************************************************************************)
(* Properties.                                                             *)
(***************************************************************************)
Built == "val" \in DOMAIN matrix

Running == pc \in {"masking", "done"}

Width == Size(seq_standard_tokens[0])

\* C1: a matrix boltz_to_esm_matrix() returns has len(TOKENS) rows of
\* len(ESM_TOKENS) entries, all 0 or 1, and row i holds exactly one 1, at column
\* ESM_TOKENS[TOKENS[i]].
C1_OneHotRows ==
    Built =>
        /\ DOMAIN matrix.val = 0 .. Size(TOKENS) - 1
        /\ \A i \in DOMAIN matrix.val :
             /\ DOMAIN matrix.val[i] = 0 .. Size(ESM_TOKENS) - 1
             /\ \A c \in DOMAIN matrix.val[i] : matrix.val[i][c] \in {0, 1}
             /\ Sum(matrix.val[i]) = 1
             /\ matrix.val[i][ESM_TOKENS[TOKENS[i]]] = 1

C1_Witness ==
    /\ Built
    /\ Size(TOKENS) >= 2
    /\ ESM_TOKENS[TOKENS[0]] # ESM_TOKENS[TOKENS[1]]
    /\ TOKENS # StandardTOKENS

\* C5: when a symbol of TOKENS has no entry in ESM_TOKENS, boltz_to_esm_matrix()
\* raises and returns no matrix.
C5_MissingSymbolRaises ==
    (matrix # None /\ \E i \in DOMAIN TOKENS : TOKENS[i] \notin DOMAIN ESM_TOKENS)
        => IsError(matrix)

C5_Witness ==
    /\ matrix = Raise("KeyError")
    /\ \E i \in DOMAIN TOKENS : TOKENS[i] \notin DOMAIN ESM_TOKENS
    /\ \E i \in DOMAIN TOKENS : TOKENS[i] \in DOMAIN ESM_TOKENS

\* the design symbols a model column stands for
InverseLookup(c) ==
    {TOKENS[i] : i \in {h \in DOMAIN TOKENS : ESM_TOKENS[TOKENS[h]] = c}}

C2_ExactlyNPasses ==
    Running =>
        /\ n >= 1
        /\ DOMAIN esm_toks = 0 .. n + 1
        /\ DOMAIN passes \subseteq 1 .. n
        /\ pc = "done" => DOMAIN passes = 1 .. n /\ Size(passes) = n
        /\ \A i \in DOMAIN passes :
             /\ passes[i].masked_tokens[0] = one_hot(ClsIndex, EsmWidth)
             /\ passes[i].masked_tokens[n + 1] = one_hot(EosIndex, EsmWidth)
             /\ \A j \in {0, n + 1} :
                  passes[i].masked_tokens[j] # one_hot(ESM_TOKENS["m"], EsmWidth)

C2_Witness ==
    /\ pc = "done"
    /\ n = 1
    /\ Size(esm_toks) = 3
    /\ DOMAIN passes = {1}

\* C3: esm_pll is the mean over k = 0..n-1 of the sum over the vocabulary of
\* (the row of the pass that masked index k + 1) * (projected row k); the loss
\* is its negation; the metrics hold it under "esm_pll" alone.
C3_PllPairsPositions ==
    pc = "done" =>
        LET total == Sum([k \in 0 .. n - 1 |->
                        Sum([v \in 0 .. EsmWidth - 1 |->
                            passes[k + 1].ll.num[v] * esm_toks_unpadded[k][v]])])
            den   == passes[1].ll.den * One * n
        IN  /\ DOMAIN result = {"loss", "metrics"}
            /\ DOMAIN result.metrics = {"esm_pll"}
            /\ result.metrics.esm_pll = [num |-> total, den |-> den]
            /\ result.loss = [num |-> -total, den |-> den]

C3_Witness ==
    /\ pc = "done"
    /\ n >= 2
    /\ seq_standard_tokens[0] # seq_standard_tokens[1]
    /\ passes[1].ll # passes[2].ll
    /\ result.metrics.esm_pll.num # 0

\* C4: a call whose soft sequence has a second dimension other than
\* len(TOKENS) raises: it never brackets, embeds or runs a pass, and returns
\* neither a loss nor metrics.
C4_ShapeMismatchRaises ==
    (pc # "idle" /\ Width # Size(TOKENS)) =>
        /\ pc = "failed"
        /\ IsError(result)
        /\ esm_toks_unpadded = << >>
        /\ esm_toks = << >>
        /\ passes = << >>

C4_Witness ==
    /\ pc = "failed"
    /\ Width = Size(TOKENS) + 1
    /\ result = Raise("TypeError")

\* C7: with stop_grad the returned loss has no gradient path through the
\* masked passes (to the model's parameters or to the input), only the path
\* to the input through the projected tokens; without it the loss has the
\* passes' paths: to the parameters, and to the input when another interior
\* row than the masked one exists.
C7_StopGradient ==
    pc = "done" =>
        /\ loss_paths.through_tokens = {"seq"}
        /\ self.stop_grad => loss_paths.through_passes = {}
        /\ ~self.stop_grad =>
             /\ "esm" \in loss_paths.through_passes
             /\ n >= 2 => "seq" \in loss_paths.through_passes

C7_Witness ==
    /\ pc = "done"
    /\ self.stop_grad
    /\ n >= 2
    /\ \A i \in DOMAIN passes : passes[i].paths = {"seq", "esm"}
    /\ loss_paths.through_passes = {}

\* C8: a call that ends with the soft sequence and the object (model
\* parameters, stop_grad) of a remembered earlier call ends with that call's
\* result, whatever the two keys and the calls in between.
C8_SameInputsSameResult ==
    (pc \in {"done", "failed"} /\ remembered # None
        /\ remembered.seq = seq_standard_tokens /\ remembered.self = self)
        => remembered.result = result

C8_Witness ==
    /\ pc = "done"
    /\ remembered # None
    /\ remembered.seq = seq_standard_tokens
    /\ remembered.self = self
    /\ remembered.key # key
    /\ n >= 2

\* C10: every pass saw the bracketed sequence with row index alone replaced by
\* the one-hot of the mask token, and an embedding whose row index is zero and
\* whose other rows are the embeddings of the bracketed rows; the bracketed
\* sequence is still what the call built.
C10_IndependentPasses ==
    Running =>
        LET unmasked == [j \in DOMAIN esm_toks |->
                            [d \in 0 .. EmbedDim - 1 |->
                                Sum([v \in 0 .. EsmWidth - 1 |->
                                    esm_toks[j][v]
                                    * Pretrained(self.esm).embedding.weight[v][d]])]]
        IN  /\ esm_toks = Bracket(Project(seq_standard_tokens, matrix)).val
            /\ \A i \in DOMAIN passes :
                 /\ passes[i].masked_tokens[i] = one_hot(ESM_TOKENS["m"], EsmWidth)
                 /\ passes[i].embedding[i] = Zeros(EmbedDim)
                 /\ \A j \in DOMAIN esm_toks \ {i} :
                      /\ passes[i].masked_tokens[j] = esm_toks[j]
                      /\ passes[i].embedding[j] = unmasked[j]

C10_Witness ==
    /\ pc = "done"
    /\ n >= 2
    /\ \A i \in DOMAIN passes :
         /\ passes[i].masked_tokens[i] # esm_toks[i]
         /\ \E j \in 1 .. n : j # i /\ passes[i].embedding[j] # Zeros(EmbedDim)

\* C9: from_sequence of a wildtype of standard letters and X returns a
\* SetPositions whose variable_positions are the indices of X, and sequence()
\* of it gives the j-th supplied row at the j-th X and the wildtype's one-hot
\* elsewhere.
C9_FromSequenceOfX ==
    sp.via = "from_sequence" =>
        /\ ~IsError(sp.obj)
        /\ sp.obj.val.variable_positions.val = XPositions(sp.arg)
        /\ sp_out # None =>
             /\ ~IsError(sp_out.out)
             /\ \A i \in DOMAIN sp.arg :
                  sp_out.out.val[i] =
                      IF sp.arg[i] = "X"
                      THEN sp_out.seq[Cardinality({h \in 0 .. i - 1 : sp.arg[h] = "X"})]
                      ELSE one_hot(TokensIndex(sp.arg[i]).val, Size(TOKENS))
====
